---- MODULE Spec2Model ----
(***************************************************************************)
(* The client-side full-text search subsystem of the documentation site:   *)
(* the search engine (src/lib/search/client/search.ts), the per-tab worker *)
(* that wraps it (src/lib/search/client/worker.ts), the shared worker that *)
(* multiplexes it over several ports, and the client store                 *)
(* (src/lib/search/client/store.ts) that talks to the per-tab worker.      *)
(*                                                                         *)
(* A string is a sequence of words and a word a sequence of characters, so *)
(* that prefixes and lower-casing are computed and not assumed.            *)
(***************************************************************************)
EXTENDS Integers, Sequences, FiniteSets, TLC

(***************************************************************************)
(* Bounds of the model.                                                    *)
(***************************************************************************)
NumPorts == 2
MaxRequests == 4
MaxFetches == 2
MaxBlocks == 2
MaxLen == 4
MaxBody == 3

Ports == 1..NumPorts

(***************************************************************************)
(* Text.                                                                   *)
(***************************************************************************)
WGet == <<"G", "e">>
WStarted == <<"S", "t">>
WOverview == <<"O", "v">>
WFollow == <<"f", "o">>
WSteps == <<"s", "t", "e">>

\* What a JavaScript template literal prints for the value undefined.
Undefined == <<"u", "n", "d", "e", "f", "i", "n", "e", "d">>

Lower(c) ==
    CASE c = "G" -> "g"
      [] c = "B" -> "b"
      [] c = "S" -> "s"
      [] c = "O" -> "o"
      [] OTHER -> c

toLowerCase(word) == [i \in DOMAIN word |-> Lower(word[i])]

Prefixes(word) == {SubSeq(word, 1, k) : k \in 1..Len(word)}

IsPrefix(q, word) == Len(q) <= Len(word) /\ SubSeq(word, 1, Len(q)) = q

Range(s) == {s[i] : i \in DOMAIN s}

(***************************************************************************)
(* The corpus (types.ts): SearchNode, SearchBlocks, SearchResult.  An      *)
(* optional content is a sequence of at most one string.                   *)
(***************************************************************************)
TitleGetStarted == <<WGet, WStarted>>
TitleOverview == <<WOverview>>
ContentSteps == <<WFollow, WSteps>>

HrefRoot == "/docs/get-started"
HrefSection == "/docs/get-started/#overview"

Hrefs == {HrefRoot, HrefSection}

\* A document root with a body, and a section heading without one.
RootNode(h) ==
    [breadcrumbs |-> <<TitleGetStarted>>, content |-> <<ContentSteps>>, href |-> h]

SectionNode(h) ==
    [breadcrumbs |-> <<TitleGetStarted, TitleOverview>>, content |-> <<>>, href |-> h]

SearchNode == {RootNode(h) : h \in Hrefs} \cup {SectionNode(h) : h \in Hrefs}

SeqsUpTo(S, n) == UNION {[1..k -> S] : k \in 0..n}

\* Every corpus of at most MaxBlocks nodes, hrefs repeated or not.
SearchBlocks == SeqsUpTo(SearchNode, MaxBlocks)

\* The corpus of the get-started scenario, and one with a section heading.
ScenarioBlocks == <<RootNode(HrefRoot)>>

SectionBlocks == <<RootNode(HrefRoot), SectionNode(HrefSection)>>

SampleBlocks == {ScenarioBlocks, SectionBlocks}

(***************************************************************************)
(* Queries.                                                                *)
(***************************************************************************)
QuerySteps == << <<"s", "t", "e">> >>
QueryUpper == << <<"O">> >>
QueryUndef == << <<"u", "n", "d">> >>
QueryEmpty == << >>
QueryNone == << <<"z">> >>

Queries == {QuerySteps, QueryUpper, QueryUndef, QueryEmpty, QueryNone}
RequestQueries == {QuerySteps, QueryUndef}

Origin == "https://fast-endpoints.com"

(***************************************************************************)
(* The index (flexsearch, tokenize: 'forward'): the registered ids in the  *)
(* order they were added, each with the tokens its text was indexed under. *)
(***************************************************************************)
\* The encoder lower-cases the text and splits it into words.
Encode(text) == [i \in DOMAIN text |-> toLowerCase(text[i])]

\* Forward tokenization: every prefix of every word.
Tokens(text) == UNION {Prefixes(w) : w \in Range(Encode(text))}

\* index.add(id, text): an id already registered is updated, that is
\* removed and added again.
IndexAdd(idx, id, text) ==
    Append(SelectSeq(idx, LAMBDA e : e.id # id),
           [id |-> id, tokens |-> Tokens(text)])

\* index.search(query): the ids whose text has every word of the query as a
\* token; an empty query matches nothing.
IndexSearch(idx, query) ==
    LET words == Range(Encode(query))
        hits == SelectSeq(idx, LAMBDA e : words \subseteq e.tokens)
    IN  IF words = {} THEN <<>> ELSE [i \in DOMAIN hits |-> hits[i].id]

IndexIds(idx) == {idx[i].id : i \in DOMAIN idx}

(***************************************************************************)
(* State.                                                                  *)
(***************************************************************************)
VARIABLES
    transport,          \* "per-tab", "shared", or "direct" (the engine called directly)
    isInited,           \* search.ts
    index,              \* search.ts
    searchLookup,       \* search.ts
    searchData,         \* the corpus most recently parsed by init
    isInitInProgess,    \* imported by the shared worker
    awaiting,           \* init calls suspended at their fetch
    fetches,            \* fetch requests issued for <origin>/search.json
    portsWaitingOnInit, \* shared worker
    inbox,              \* requests posted to the worker and not yet handled
    handled,            \* requests the worker has handled, in order
    posted,             \* responses posted to each port, in order
    rejections,         \* handler invocations that ended in a rejected promise
    lastCall,           \* the last direct call of the engine and its outcome
    worker,             \* store.ts: whether the store created a worker
    state,              \* store.ts: the value of the writable store
    delivered,          \* responses of the worker delivered to the store
    files,              \* content.ts: the listing of ./src/routes/docs
    fileIx,             \* content.ts: the files the loop of content has been through
    corpus,             \* content.ts: blocks, as pushed so far
    slugInput,          \* a string given to slugify
    slugOutput          \* what slugify returned for it, once called

engine == <<isInited, index, searchLookup, searchData>>
store == <<worker, state, delivered>>
extractor == <<files, fileIx, corpus, slugInput, slugOutput>>
vars == <<transport, isInited, index, searchLookup, searchData, isInitInProgess,
          awaiting, fetches, portsWaitingOnInit, inbox, handled, posted,
          rejections, lastCall, worker, state, delivered, files, fileIx, corpus,
          slugInput, slugOutput>>

(***************************************************************************)
(* search.ts                                                               *)
(***************************************************************************)
Title(breadcrumbs) == breadcrumbs[Len(breadcrumbs)]

\* `${title} ${content}`
Template(title, content) ==
    title \o (IF content = <<>> THEN <<Undefined>> ELSE content[1])

\* A result that takes the first breadcrumb, the title of the document, as
\* its title.
SearchResultOfFirstCrumb(node) ==
    [breadcrumbs |-> node.breadcrumbs, content |-> node.content,
     href |-> node.href, title |-> node.breadcrumbs[1]]

SearchResultOf(node) ==
    [breadcrumbs |-> node.breadcrumbs, content |-> node.content,
     href |-> node.href, title |-> Title(node.breadcrumbs)]

MapSet(m, k, v) == [x \in DOMAIN m \cup {k} |-> IF x = k THEN v ELSE m[x]]

\* A loop that registers only the nodes that have a content in the lookup table.
AddBlockSkipsLookup(st, node) ==
    [index |-> IndexAdd(st.index, node.href,
                        Template(Title(node.breadcrumbs), node.content)),
     searchLookup |-> IF node.content = <<>> THEN st.searchLookup
                      ELSE MapSet(st.searchLookup, node.href, SearchResultOf(node))]

\* One turn of the loop of init over searchData.blocks.
AddBlock(st, node) ==
    [index |-> IndexAdd(st.index, node.href,
                        Template(Title(node.breadcrumbs), node.content)),
     searchLookup |-> MapSet(st.searchLookup, node.href, SearchResultOf(node))]

RECURSIVE AddBlocks(_, _)
AddBlocks(st, blocks) ==
    IF blocks = <<>> THEN st
    ELSE AddBlocks(AddBlock(st, Head(blocks)), Tail(blocks))

\* The flag the shared worker imports from search.ts.
SetInitInProgess(b) == isInitInProgess' = b

\* An init without its guard: it fetches whether the engine is Ready or not.
initNoGuard ==
    /\ fetches' = fetches + 1
    /\ awaiting' = awaiting + 1
    /\ SetInitInProgess(TRUE)

\* init(origin), up to its await of the fetch.
init ==
    IF isInited
    THEN UNCHANGED <<awaiting, fetches, isInitInProgess>>
    ELSE /\ fetches' = fetches + 1
         /\ awaiting' = awaiting + 1
         /\ SetInitInProgess(TRUE)

\* An init that yields to the event loop in the middle of its loop: it is
\* seen with the first node added and the rest of the corpus still to come.
initResumeFirstBlockOnly(blocks) ==
    LET st == AddBlocks([index |-> index, searchLookup |-> searchLookup],
                        SubSeq(blocks, 1, 1))
    IN  /\ searchData' = blocks
        /\ searchLookup' = st.searchLookup
        /\ index' = st.index
        /\ isInited' = TRUE
        /\ awaiting' = awaiting - 1
        /\ SetInitInProgess(FALSE)

\* init(origin), from the response of the fetch to its return.
initResume(blocks) ==
    LET st == AddBlocks([index |-> index, searchLookup |-> searchLookup], blocks)
    IN  /\ searchData' = blocks
        /\ searchLookup' = st.searchLookup
        /\ index' = st.index
        /\ isInited' = TRUE
        /\ awaiting' = awaiting - 1
        /\ SetInitInProgess(FALSE)

\* An init that marks the engine initialised although its fetch failed.
initRejectMarksInited ==
    /\ awaiting' = awaiting - 1
    /\ SetInitInProgess(FALSE)
    /\ isInited' = TRUE
    /\ UNCHANGED <<index, searchLookup, searchData>>

\* An init that resets the engine when a fetch fails.
initRejectResetsInited ==
    /\ awaiting' = awaiting - 1
    /\ SetInitInProgess(FALSE)
    /\ isInited' = FALSE
    /\ UNCHANGED <<index, searchLookup, searchData>>

\* init(origin) when the fetch or the parse of its body fails.
initReject ==
    /\ awaiting' = awaiting - 1
    /\ SetInitInProgess(FALSE)
    /\ UNCHANGED engine

\* A search that refuses to run before the engine is Ready.
searchThrowsUnlessReady(query) == ~isInited

lookupThrows(href) == href \notin DOMAIN searchLookup

lookup(href) == searchLookup[href]

searchThrows(query) ==
    \E h \in Range(IndexSearch(index, query)) : lookupThrows(h)

search(query) ==
    LET resultHrefs == IndexSearch(index, query)
    IN  [i \in DOMAIN resultHrefs |-> lookup(resultHrefs[i])]

(***************************************************************************)
(* Messages.                                                               *)
(***************************************************************************)
InitRequest(p) == [port |-> p, type |-> "init", origin |-> Origin]
SearchRequest(p, q) == [query |-> q, port |-> p, type |-> "search-request"]
ReadyResponse == [type |-> "ready"]
SearchResponse(results) == [type |-> "search-response", results |-> results]

\* A channel that hands over the newest message first.
postMessageFront(to, p, msg) == [to EXCEPT ![p] = <<msg>> \o @]

postMessage(to, p, msg) == [to EXCEPT ![p] = Append(@, msg)]

RECURSIVE PostReadyToAll(_, _)
PostReadyToAll(to, ports) ==
    IF ports = <<>> THEN to
    ELSE PostReadyToAll(postMessage(to, Head(ports), ReadyResponse), Tail(ports))

ActivePorts == IF transport = "shared" THEN Ports ELSE {1}

(***************************************************************************)
(* The consumers: a request is posted to the worker.                       *)
(***************************************************************************)
PostRequest(msg) ==
    /\ transport \in {"per-tab", "shared"}
    /\ msg.port \in ActivePorts
    /\ Len(handled) + Len(inbox) < MaxRequests
    /\ inbox' = Append(inbox, msg)
    /\ UNCHANGED <<transport, engine, isInitInProgess, awaiting, fetches,
                   portsWaitingOnInit, handled, posted, rejections, lastCall>>
    /\ UNCHANGED <<store, extractor>>

PostInit(p) == PostRequest(InitRequest(p))

PostSearch(p, q) == PostRequest(SearchRequest(p, q))

(***************************************************************************)
(* case 'search-request' of both workers.                                  *)
(***************************************************************************)
\* A handler that makes a search wait for init: the port is queued and
\* nothing is answered while the engine is not Ready.
OnSearchRequestQueuesUnlessReady(msg) ==
    IF isInited
    THEN /\ posted' = postMessage(posted, msg.port,
                                  SearchResponse(search(msg.query)))
         /\ UNCHANGED <<engine, isInitInProgess, awaiting, fetches,
                        portsWaitingOnInit, rejections>>
    ELSE /\ portsWaitingOnInit' = Append(portsWaitingOnInit, msg.port)
         /\ UNCHANGED <<engine, isInitInProgess, awaiting, fetches, posted,
                        rejections>>

OnSearchRequest(msg) ==
    /\ IF searchThrows(msg.query)
       THEN /\ rejections' = rejections + 1
            /\ UNCHANGED posted
       ELSE /\ posted' = postMessage(posted, msg.port,
                                     SearchResponse(search(msg.query)))
            /\ UNCHANGED rejections
    /\ UNCHANGED <<engine, isInitInProgess, awaiting, fetches, portsWaitingOnInit>>

(***************************************************************************)
(* The per-tab worker: worker.onmessage.                                   *)
(***************************************************************************)
\* A handler that answers no init once the engine is Ready.
OnInitPerTabSilentWhenReady(msg) ==
    IF isInited
    THEN UNCHANGED <<engine, isInitInProgess, awaiting, fetches,
                     portsWaitingOnInit, posted, rejections>>
    ELSE /\ init
         /\ UNCHANGED <<engine, portsWaitingOnInit, posted, rejections>>

OnInitPerTab(msg) ==
    IF isInited
    THEN /\ posted' = postMessage(posted, msg.port, ReadyResponse)
         /\ UNCHANGED <<engine, isInitInProgess, awaiting, fetches,
                        portsWaitingOnInit, rejections>>
    ELSE /\ init
         /\ UNCHANGED <<engine, portsWaitingOnInit, posted, rejections>>

onmessage ==
    /\ transport = "per-tab"
    /\ inbox # <<>>
    /\ LET msg == Head(inbox)
       IN  /\ inbox' = Tail(inbox)
           /\ handled' = Append(handled, msg)
           /\ IF msg.type = "init" THEN OnInitPerTab(msg) ELSE OnSearchRequest(msg)
    /\ UNCHANGED <<transport, lastCall, store, extractor>>

(***************************************************************************)
(* The shared worker: handleMessage.                                       *)
(***************************************************************************)
\* A handler that queues the port even when the engine is Ready.
OnInitSharedEnqueuesWhenReady(msg) ==
    /\ portsWaitingOnInit' = Append(portsWaitingOnInit, msg.port)
    /\ IF isInited
       THEN /\ posted' = postMessage(posted, msg.port, ReadyResponse)
            /\ UNCHANGED <<isInitInProgess, awaiting, fetches>>
       ELSE /\ IF isInitInProgess
               THEN UNCHANGED <<isInitInProgess, awaiting, fetches>>
               ELSE init
            /\ UNCHANGED posted
    /\ UNCHANGED <<engine, rejections>>

OnInitShared(msg) ==
    IF isInited
    THEN /\ posted' = postMessage(posted, msg.port, ReadyResponse)
         /\ UNCHANGED <<engine, isInitInProgess, awaiting, fetches,
                        portsWaitingOnInit, rejections>>
    ELSE /\ portsWaitingOnInit' = Append(portsWaitingOnInit, msg.port)
         /\ IF isInitInProgess
            THEN UNCHANGED <<isInitInProgess, awaiting, fetches>>
            ELSE init
         /\ UNCHANGED <<engine, posted, rejections>>

\* A worker that takes no further message while an init is suspended.
handleMessageAfterInit ==
    /\ transport = "shared"
    /\ awaiting = 0
    /\ inbox # <<>>
    /\ LET msg == Head(inbox)
       IN  /\ inbox' = Tail(inbox)
           /\ handled' = Append(handled, msg)
           /\ IF msg.type = "init" THEN OnInitShared(msg) ELSE OnSearchRequest(msg)
    /\ UNCHANGED <<transport, lastCall, store, extractor>>

handleMessage ==
    /\ transport = "shared"
    /\ inbox # <<>>
    /\ LET msg == Head(inbox)
       IN  /\ inbox' = Tail(inbox)
           /\ handled' = Append(handled, msg)
           /\ IF msg.type = "init" THEN OnInitShared(msg) ELSE OnSearchRequest(msg)
    /\ UNCHANGED <<transport, lastCall, store, extractor>>

(***************************************************************************)
(* The fetch of an init call settles and the handler that awaits it        *)
(* continues.                                                              *)
(***************************************************************************)
\* Per-tab: this.postMessage({ type: 'ready' }).
AfterInitPerTab ==
    /\ posted' = postMessage(posted, 1, ReadyResponse)
    /\ UNCHANGED portsWaitingOnInit

\* A continuation that answers only the port whose init started the fetch.
AfterInitSharedFirstOnly ==
    /\ posted' = IF portsWaitingOnInit = <<>> THEN posted
                 ELSE postMessage(posted, Head(portsWaitingOnInit), ReadyResponse)
    /\ portsWaitingOnInit' = <<>>

\* A continuation that answers every connected port, queued or not.
AfterInitSharedBroadcast ==
    /\ posted' = PostReadyToAll(posted, [i \in 1..NumPorts |-> i])
    /\ portsWaitingOnInit' = <<>>

\* Shared: ready to every queued port, and the queue is emptied.
AfterInitShared ==
    /\ posted' = PostReadyToAll(posted, portsWaitingOnInit)
    /\ portsWaitingOnInit' = <<>>

FetchResolves(blocks) ==
    /\ transport \in {"per-tab", "shared"}
    /\ awaiting > 0
    /\ initResume(blocks)
    /\ IF transport = "shared" THEN AfterInitShared ELSE AfterInitPerTab
    /\ UNCHANGED <<transport, fetches, inbox, handled, rejections, lastCall, store, extractor>>

\* A failure path that forgets the ports waiting for the failed init.
FetchRejectsClearsQueue ==
    /\ transport \in {"per-tab", "shared"}
    /\ awaiting > 0
    /\ initReject
    /\ rejections' = rejections + 1
    /\ portsWaitingOnInit' = <<>>
    /\ UNCHANGED <<transport, fetches, inbox, handled,
                   posted, lastCall, store, extractor>>

FetchRejects ==
    /\ transport \in {"per-tab", "shared"}
    /\ awaiting > 0
    /\ initReject
    /\ rejections' = rejections + 1
    /\ UNCHANGED <<transport, fetches, portsWaitingOnInit, inbox, handled,
                   posted, lastCall, store, extractor>>

(***************************************************************************)
(* The engine called directly, without a worker around it.                 *)
(***************************************************************************)
CallInit ==
    /\ transport = "direct"
    /\ fetches < MaxFetches
    /\ init
    /\ lastCall' = [op |-> "init", settled |-> isInited]
    /\ UNCHANGED <<transport, engine, portsWaitingOnInit, inbox, handled,
                   posted, rejections, store, extractor>>

CallSearch(q) ==
    /\ transport = "direct"
    /\ lastCall' = IF searchThrows(q)
                   THEN [query |-> q, op |-> "search", threw |-> TRUE]
                   ELSE [query |-> q, results |-> search(q), op |-> "search",
                         threw |-> FALSE]
    /\ UNCHANGED <<transport, engine, isInitInProgess, awaiting, fetches,
                   portsWaitingOnInit, inbox, handled, posted, rejections, store, extractor>>

CallInitResolves(blocks) ==
    /\ transport = "direct"
    /\ awaiting > 0
    /\ initResume(blocks)
    /\ UNCHANGED <<transport, fetches, portsWaitingOnInit, inbox, handled,
                   posted, rejections, lastCall, store, extractor>>

CallInitRejects ==
    /\ transport = "direct"
    /\ awaiting > 0
    /\ initReject
    /\ rejections' = rejections + 1
    /\ UNCHANGED <<transport, fetches, portsWaitingOnInit, inbox, handled,
                   posted, lastCall, store, extractor>>

(***************************************************************************)
(* The client store (store.ts), in front of a per-tab worker: its requests *)
(* go to the inbox of the worker, and the responses posted to port 1 are   *)
(* delivered to it one at a time, in the order they were posted.           *)
(***************************************************************************)
\* The requests the store has sent, in order.
sent == handled \o inbox

\* The responses the store has received, in order.
received == SubSeq(posted[1], 1, delivered)

\* A search that also empties the result list.
StoreSearchClearsResults(query) ==
    /\ Len(handled) + Len(inbox) < MaxRequests
    /\ state' = [state EXCEPT !.query = query, !.results = <<>>]
    /\ inbox' = IF worker THEN Append(inbox, SearchRequest(1, query)) ELSE inbox
    /\ UNCHANGED <<transport, engine, isInitInProgess, awaiting, fetches,
                   portsWaitingOnInit, handled, posted, rejections, lastCall,
                   worker, delivered, extractor>>

\* A search that posts its request whether a worker was created or not.
StoreSearchPostsAlways(query) ==
    /\ Len(handled) + Len(inbox) < MaxRequests
    /\ state' = [state EXCEPT !.query = query]
    /\ inbox' = Append(inbox, SearchRequest(1, query))
    /\ UNCHANGED <<transport, engine, isInitInProgess, awaiting, fetches,
                   portsWaitingOnInit, handled, posted, rejections, lastCall,
                   worker, delivered, extractor>>

\* search(query): update of the state, then worker?.postMessage.
StoreSearch(query) ==
    /\ Len(handled) + Len(inbox) < MaxRequests
    /\ state' = [state EXCEPT !.query = query]
    /\ inbox' = IF worker THEN Append(inbox, SearchRequest(1, query)) ELSE inbox
    /\ UNCHANGED <<transport, engine, isInitInProgess, awaiting, fetches,
                   portsWaitingOnInit, handled, posted, rejections, lastCall,
                   worker, delivered, extractor>>

StoreFrame ==
    UNCHANGED <<transport, engine, isInitInProgess, awaiting, fetches,
                portsWaitingOnInit, inbox, handled, posted, rejections,
                lastCall, worker, delivered, extractor>>

toggleOpen ==
    /\ state' = [state EXCEPT !.isOpen = ~state.isOpen]
    /\ StoreFrame

open ==
    /\ state' = [state EXCEPT !.isOpen = TRUE]
    /\ StoreFrame

\* A close that leaves the query in place.
closeKeepsQuery ==
    /\ state' = [state EXCEPT !.isOpen = FALSE]
    /\ StoreFrame

close ==
    /\ state' = [state EXCEPT !.query = <<>>, !.isOpen = FALSE]
    /\ StoreFrame

\* A handler that adds the results of a response to those already shown.
StoreOnMessageAppends ==
    /\ worker
    /\ delivered < Len(posted[1])
    /\ LET msg == posted[1][delivered + 1]
       IN  state' = IF msg.type = "search-response"
                    THEN [state EXCEPT !.results = state.results \o msg.results]
                    ELSE state
    /\ delivered' = delivered + 1
    /\ UNCHANGED <<transport, engine, isInitInProgess, awaiting, fetches,
                   portsWaitingOnInit, inbox, handled, posted, rejections,
                   lastCall, worker, extractor>>

\* A handler that sends the current query again when the worker is ready.
StoreOnMessageRetriesOnReady ==
    /\ worker
    /\ delivered < Len(posted[1])
    /\ LET msg == posted[1][delivered + 1]
       IN  /\ state' = IF msg.type = "search-response"
                       THEN [state EXCEPT !.results = msg.results]
                       ELSE state
           /\ inbox' = IF msg.type = "ready" /\ state.query # <<>>
                       THEN Append(inbox, SearchRequest(1, state.query))
                       ELSE inbox
    /\ delivered' = delivered + 1
    /\ UNCHANGED <<transport, engine, isInitInProgess, awaiting, fetches,
                   portsWaitingOnInit, handled, posted, rejections,
                   lastCall, worker, extractor>>

\* worker.onmessage of the store: the next response of the worker arrives.
StoreOnMessage ==
    /\ worker
    /\ delivered < Len(posted[1])
    /\ LET msg == posted[1][delivered + 1]
       IN  state' = IF msg.type = "search-response"
                    THEN [state EXCEPT !.results = msg.results]
                    ELSE state
    /\ delivered' = delivered + 1
    /\ UNCHANGED <<transport, engine, isInitInProgess, awaiting, fetches,
                   portsWaitingOnInit, inbox, handled, posted, rejections,
                   lastCall, worker, extractor>>

(***************************************************************************)
(* The content extractor (content.ts).  Here a string is a sequence of     *)
(* characters.                                                             *)
(***************************************************************************)
Letters == {"a", "b", "c", "d", "e", "f", "g", "h", "i", "j", "k", "l", "m",
            "n", "o", "p", "q", "r", "s", "t", "u", "v", "w", "x", "y", "z"}
Digits == {"0", "1", "2", "3", "4", "5", "6", "7", "8", "9"}

\* The characters the class [a-z0-9-$] matches.
SlugChars == Letters \cup Digits \cup {"-", "$"}

\* The characters the strings given to slugify are made of.
Chars == {"a", "B", " ", "-", "$"}

Strings == SeqsUpTo(Chars, MaxLen)

\* .replace(/[^a-z0-9-$]/g, '-')
ReplaceOutside(str) ==
    [i \in DOMAIN str |-> IF str[i] \in SlugChars THEN str[i] ELSE "-"]

\* .replace(/-{2,}/g, '-')
RECURSIVE CollapseHyphens(_)
CollapseHyphens(str) ==
    IF Len(str) < 2 THEN str
    ELSE IF str[1] = "-" /\ str[2] = "-" THEN CollapseHyphens(Tail(str))
    ELSE <<str[1]>> \o CollapseHyphens(Tail(str))

\* .replace(/^-/, '')
DropLeadingHyphen(str) ==
    IF str # <<>> /\ str[1] = "-" THEN Tail(str) ELSE str

\* .replace(/-$/, '')
DropTrailingHyphen(str) ==
    IF str # <<>> /\ str[Len(str)] = "-" THEN SubSeq(str, 1, Len(str) - 1) ELSE str

\* A slugify without its second replace: runs of hyphens are left as they are.
slugifyNoCollapse(input) ==
    DropTrailingHyphen(DropLeadingHyphen(ReplaceOutside(toLowerCase(input))))

slugify(input) ==
    DropTrailingHyphen(DropLeadingHyphen(
        CollapseHyphens(ReplaceOutside(toLowerCase(input)))))

\* The body of a markdown file after its title line, as a sequence of
\* elements: a line of text (level 0) or a heading line of level 2, 3 or 4.
Headings == {<<"a">>, <<"B">>}

TextLine == [text |-> <<"a">>, level |-> 0]

HeadingLine(l, t) == [text |-> t, level |-> l]

Elements == {TextLine} \cup {HeadingLine(l, t) : l \in 2..4, t \in Headings}

Bodies == SeqsUpTo(Elements, MaxBody)

TitleSlugs == {<<"a">>, <<"B">>}

DocTitle == <<"B", " ", "a">>

\* A file of ./src/routes/docs whose name matches /\[.+\](.+)\.md/, with the
\* part of its name the pattern captures, its title and its body.
MdFile(slug, body) ==
    [title |-> DocTitle, body |-> body, md |-> TRUE, titleSlug |-> slug]

\* A file whose name the pattern does not match.
OtherFile == [md |-> FALSE]

MdFiles == {MdFile(slug, body) : slug \in TitleSlugs, body \in Bodies}

SampleFiles == {OtherFile, MdFile(<<"a">>, <<>>),
                MdFile(<<"B">>, <<HeadingLine(2, <<"a">>)>>)}

\* What fs.readdirSync returns: one file, or one file and a sample file.
Listings == {<<f>> : f \in MdFiles} \cup
            {<<f, g>> : f \in MdFiles, g \in SampleFiles}

DocsPath == <<"/", "d", "o", "c", "s", "/">>

\* generateUrl(titleSlug, sectionName?): an absent and an empty sectionName
\* are both falsy.
generateUrl(titleSlug, sectionName) ==
    IF sectionName # <<>>
    THEN DocsPath \o slugify(titleSlug) \o <<"/", "#">> \o slugify(sectionName)
    ELSE DocsPath \o titleSlug

\* renderPlaintext(markdown?): nothing for an empty text.
renderPlaintext(markdown) == IF markdown = <<>> THEN <<>> ELSE <<markdown>>

\* text.trim().split(/^## /m) and its like for ### and ####: the part before
\* the first heading line of the level, and one section per such line, made
\* of the text of the line and of what follows it.
HeadingIxs(body, l) == {i \in DOMAIN body : body[i].level = l}

SectionEnd(body, l, i) ==
    LET later == {j \in HeadingIxs(body, l) : j > i}
    IN  IF later = {} THEN Len(body)
        ELSE (CHOOSE j \in later : \A k \in later : j <= k) - 1

Intro(body, l) ==
    LET ixs == HeadingIxs(body, l)
    IN  IF ixs = {} THEN body
        ELSE SubSeq(body, 1, (CHOOSE j \in ixs : \A k \in ixs : j <= k) - 1)

SortedIxs(ixs) ==
    CHOOSE sq \in [1..Cardinality(ixs) -> ixs] :
        \A a, b \in 1..Cardinality(ixs) : a < b => sq[a] < sq[b]

Sections(body, l) ==
    LET ixs == SortedIxs(HeadingIxs(body, l))
    IN  [k \in DOMAIN ixs |->
            [heading |-> body[ixs[k]].text,
             lines |-> SubSeq(body, ixs[k] + 1, SectionEnd(body, l, ixs[k]))]]

RECURSIVE Flatten(_)
Flatten(seqs) == IF seqs = <<>> THEN <<>> ELSE Head(seqs) \o Flatten(Tail(seqs))

\* The node pushed for a heading: its trail, the text before its first
\* child heading, and its address.
Block(trail, intro, url) ==
    [breadcrumbs |-> trail, content |-> renderPlaintext(intro), href |-> url]

\* The pushes of the h4 loop.
H4Blocks(file, h2Title, h3Title, h3Lines) ==
    LET h4Sections == Sections(h3Lines, 4)
    IN  [k \in DOMAIN h4Sections |->
            Block(<<file.title, h2Title, h3Title, h4Sections[k].heading>>,
                  h4Sections[k].lines,
                  generateUrl(file.titleSlug, h4Sections[k].heading))]

\* The pushes of one turn of the h3 loop.
H3Blocks(file, h2Title, h3Section) ==
    <<Block(<<file.title, h2Title, h3Section.heading>>,
            Intro(h3Section.lines, 4),
            generateUrl(file.titleSlug, h3Section.heading))>>
        \o H4Blocks(file, h2Title, h3Section.heading, h3Section.lines)

\* The pushes of one turn of the h2 loop.
H2Blocks(file, h2Section) ==
    LET h3Sections == Sections(h2Section.lines, 3)
    IN  <<Block(<<file.title, h2Section.heading>>,
                Intro(h2Section.lines, 3),
                generateUrl(file.titleSlug, h2Section.heading))>>
            \o Flatten([k \in DOMAIN h3Sections |->
                           H3Blocks(file, h2Section.heading, h3Sections[k])])

\* The pushes of one turn of the loop over the files.
FileBlocks(file) ==
    LET h2Sections == Sections(file.body, 2)
    IN  <<Block(<<file.title>>, Intro(file.body, 2),
                generateUrl(file.titleSlug, <<>>))>>
            \o Flatten([k \in DOMAIN h2Sections |-> H2Blocks(file, h2Sections[k])])

(***************************************************************************)
(* Specifications.                                                         *)
(***************************************************************************)
\* The content extractor runs at build time, not in the browser.
NoExtractor ==
    /\ files = <<>>
    /\ fileIx = 0
    /\ corpus = <<>>
    /\ slugInput = <<>>
    /\ slugOutput = <<>>

\* The modules of the engine and of the worker, once loaded.
InitWorker ==
    /\ isInited = FALSE
    /\ index = <<>>
    /\ searchLookup = <<>>
    /\ searchData = <<>>
    /\ isInitInProgess = FALSE
    /\ awaiting = 0
    /\ fetches = 0
    /\ portsWaitingOnInit = <<>>
    /\ handled = <<>>
    /\ posted = [p \in Ports |-> <<>>]
    /\ rejections = 0
    /\ lastCall = [op |-> "none"]

\* writable<SearchState>({ query: '', results: [], isOpen: false })
InitialSearchState == [query |-> <<>>, results |-> <<>>, isOpen |-> FALSE]

\* No store in front of the worker: the consumers post their requests themselves.
InitState ==
    /\ InitWorker
    /\ inbox = <<>>
    /\ worker = FALSE
    /\ state = InitialSearchState
    /\ delivered = 0
    /\ NoExtractor

Init ==
    /\ transport \in {"per-tab", "shared"}
    /\ InitState

Next ==
    \/ \E p \in Ports : PostInit(p)
    \/ \E p \in Ports, q \in RequestQueries : PostSearch(p, q)
    \/ onmessage
    \/ handleMessage
    \/ \E blocks \in SampleBlocks : FetchResolves(blocks)
    \/ FetchRejects

Spec == Init /\ [][Next]_vars

InitEngine ==
    /\ transport = "direct"
    /\ InitState

NextEngine ==
    \/ CallInit
    \/ \E q \in Queries : CallSearch(q)
    \/ \E blocks \in SearchBlocks : CallInitResolves(blocks)
    \/ CallInitRejects

SpecEngine == InitEngine /\ [][NextEngine]_vars

\* A store that creates its worker without sending it init.
createSearchStoreNoInit ==
    /\ transport = "per-tab"
    /\ InitWorker
    /\ worker \in BOOLEAN
    /\ inbox = <<>>
    /\ state = InitialSearchState
    /\ delivered = 0
    /\ NoExtractor

\* createSearchStore(): worker is created when browser && window.Worker, and
\* is sent init at once.
createSearchStore ==
    /\ transport = "per-tab"
    /\ InitWorker
    /\ worker \in BOOLEAN
    /\ inbox = IF worker THEN <<InitRequest(1)>> ELSE <<>>
    /\ state = InitialSearchState
    /\ delivered = 0
    /\ NoExtractor

NextStore ==
    \/ \E q \in RequestQueries : StoreSearch(q)
    \/ toggleOpen
    \/ open
    \/ close
    \/ StoreOnMessage
    \/ onmessage
    \/ \E blocks \in SampleBlocks : FetchResolves(blocks)
    \/ FetchRejects

SpecStore == createSearchStore /\ [][NextStore]_vars

\* The store with the two message handlers run whenever a message waits:
\* the worker takes every request posted to it, and the store takes every
\* response.  The fetch may stay pending for ever.
SpecStoreFair ==
    /\ createSearchStore
    /\ [][NextStore]_vars
    /\ WF_vars(onmessage)
    /\ WF_vars(StoreOnMessage)

\* slugify called on a string.
InitSlug ==
    /\ transport = "build"
    /\ InitWorker
    /\ inbox = <<>>
    /\ worker = FALSE
    /\ state = InitialSearchState
    /\ delivered = 0
    /\ files = <<>>
    /\ fileIx = 0
    /\ corpus = <<>>
    /\ slugInput \in Strings
    /\ slugOutput = <<>>

CallSlugify ==
    /\ transport = "build"
    /\ slugOutput = <<>>
    /\ slugOutput' = <<slugify(slugInput)>>
    /\ UNCHANGED <<transport, engine, isInitInProgess, awaiting, fetches,
                   portsWaitingOnInit, inbox, handled, posted, rejections,
                   lastCall, store, files, fileIx, corpus, slugInput>>

NextSlug == CallSlugify

SpecSlug == InitSlug /\ [][NextSlug]_vars

\* content() is about to read the listing of the directory.
InitContent ==
    /\ transport = "build"
    /\ InitWorker
    /\ inbox = <<>>
    /\ worker = FALSE
    /\ state = InitialSearchState
    /\ delivered = 0
    /\ files \in Listings
    /\ fileIx = 0
    /\ corpus = <<>>
    /\ slugInput = <<>>
    /\ slugOutput = <<>>

\* One turn of the loop of content over the files: a file whose name does
\* not match is skipped.
ReadFile ==
    /\ transport = "build"
    /\ fileIx < Len(files)
    /\ LET file == files[fileIx + 1]
       IN  corpus' = IF file.md THEN corpus \o FileBlocks(file) ELSE corpus
    /\ fileIx' = fileIx + 1
    /\ UNCHANGED <<transport, engine, isInitInProgess, awaiting, fetches,
                   portsWaitingOnInit, inbox, handled, posted, rejections,
                   lastCall, store, files, slugInput, slugOutput>>

NextContent == ReadFile

SpecContent == InitContent /\ [][NextContent]_vars

\* The workers when the fetch of the corpus never settles.  Every message
\* posted to a worker is dispatched to its handler.
NextStalled ==
    \/ \E p \in Ports : PostInit(p)
    \/ \E p \in Ports : PostSearch(p, QuerySteps)
    \/ onmessage
    \/ handleMessage

SpecStalled ==
    /\ Init
    /\ [][NextStalled]_vars
    /\ WF_vars(onmessage)
    /\ WF_vars(handleMessage)

(***************************************************************************)
(* Derived notions used by the properties.                                 *)
(***************************************************************************)
ReadyCount(p) ==
    Cardinality({i \in DOMAIN posted[p] : posted[p][i].type = "ready"})

InitsHandled(p) ==
    Cardinality({i \in DOMAIN handled :
                    handled[i].type = "init" /\ handled[i].port = p})

\* The worker takes the request at the head of its inbox in this step.
Handling(type) ==
    /\ inbox # <<>>
    /\ Head(inbox).type = type
    /\ handled' = Append(handled, Head(inbox))

\* An init call settles in this step by failing.
InitFails == awaiting' = awaiting - 1 /\ rejections' = rejections + 1

\* An init call settles in this step by completing.
InitCompletes == awaiting' = awaiting - 1 /\ rejections' = rejections

Lifecycle ==
    IF isInited THEN "Ready"
    ELSE IF awaiting > 0 THEN "Initializing" ELSE "Uninitialized"

(***************************************************************************)
(* C1.  Shared worker: no ready is posted to any port while the engine is  *)
(* not Ready, and once the fetch has succeeded every port has been posted  *)
(* exactly one ready for each init it sent, so exactly one when it sent    *)
(* one init before the fetch resolved.                                     *)
(***************************************************************************)
C1_OneReadyPerInitOnceReady ==
    transport = "shared" =>
        \A p \in Ports :
            ReadyCount(p) = IF isInited THEN InitsHandled(p) ELSE 0

\* Both ports sent init while the single fetch was pending (the search of
\* port 2, handled after its init, was still answered from the empty index)
\* and each has exactly one ready.
C1_Witness ==
    /\ transport = "shared"
    /\ isInited
    /\ fetches = 1
    /\ handled = <<InitRequest(1), InitRequest(2), SearchRequest(2, QuerySteps)>>
    /\ searchData = ScenarioBlocks
    /\ posted[1] = <<ReadyResponse>>
    /\ posted[2] = <<SearchResponse(<<>>), ReadyResponse>>

(***************************************************************************)
(* C2.  As long as no fetch has failed, the corpus is fetched at most      *)
(* once, however many init requests are handled before the engine is       *)
(* Ready.                                                                  *)
(***************************************************************************)
C2_FetchedOnce == rejections = 0 => fetches <= 1

(***************************************************************************)
(* C3.  A search-request handled while the engine is not Ready does not    *)
(* throw: exactly one search-response with no results is posted to the     *)
(* port that asked, and to no other.                                       *)
(***************************************************************************)
C3_SearchBeforeReadyAnswersEmpty ==
    [][(Handling("search-request") /\ ~isInited) =>
          /\ rejections' = rejections
          /\ posted' = postMessage(posted, Head(inbox).port, SearchResponse(<<>>))
      ]_vars

\* A search answered while the init of the same port is suspended at its fetch,
\* and the worker went on to handle a further request.
C3_Witness ==
    /\ ~isInited
    /\ awaiting = 1
    /\ handled = <<InitRequest(1), SearchRequest(1, QuerySteps),
                   SearchRequest(1, QueryUndef)>>
    /\ posted[1] = <<SearchResponse(<<>>), SearchResponse(<<>>)>>

(***************************************************************************)
(* C4.  A failed fetch rejects the init call and leaves the engine not     *)
(* Ready and unchanged; an init request handled when the engine is not     *)
(* Ready and no fetch is pending starts a new fetch; a fetch that          *)
(* completes makes the engine Ready.                                       *)
(***************************************************************************)
C4_FailedInitCanBeRetried ==
    [][/\ awaiting' < awaiting /\ ~isInited' => InitFails /\ UNCHANGED engine
       /\ InitFails => isInited' = isInited
       /\ (Handling("init") /\ ~isInited /\ awaiting = 0) =>
              fetches' = fetches + 1 /\ awaiting' = 1
       /\ InitCompletes => isInited'
      ]_vars

\* Shared worker: the first fetch failed, a later init fetched again, Ready.
C4_Witness ==
    /\ transport = "shared"
    /\ isInited
    /\ rejections = 1
    /\ fetches = 2
    /\ awaiting = 0

(***************************************************************************)
(* C5.  No invocation of a worker message handler ends in a rejected       *)
(* promise.                                                                *)
(***************************************************************************)
C5_NoUnhandledRejection == rejections = 0

(***************************************************************************)
(* C6.  Every href of the index has an entry in the lookup table, and no   *)
(* search reaches the throw of lookup.                                     *)
(***************************************************************************)
C6_NoDanglingHref ==
    /\ IndexIds(index) \subseteq DOMAIN searchLookup
    /\ \A q \in Queries : ~searchThrows(q)
    /\ lastCall.op = "search" => ~lastCall.threw

\* A corpus that repeats an href was loaded and a search returned its node.
C6_Witness ==
    /\ isInited
    /\ Len(searchData) = 2
    /\ searchData[1].href = searchData[2].href
    /\ lastCall.op = "search"
    /\ ~lastCall.threw
    /\ lastCall.results # <<>>

(***************************************************************************)
(* C7.  After one successful init of a corpus without repeated hrefs, a    *)
(* query of one word returns exactly the nodes that have a word of their   *)
(* title, or of their content when they have one, starting with the query  *)
(* (case-insensitively).                                                   *)
(***************************************************************************)
NodeWords(node) ==
    Range(node.breadcrumbs[Len(node.breadcrumbs)])
        \cup (IF node.content = <<>> THEN {} ELSE Range(node.content[1]))

NodeMatches(node, q) ==
    \E w \in NodeWords(node) : IsPrefix(toLowerCase(q[1]), toLowerCase(w))

UniqueHrefs(blocks) ==
    \A i, j \in DOMAIN blocks : blocks[i].href = blocks[j].href => i = j

C7_SearchReturnsExactlyPrefixMatches ==
    (isInited /\ fetches = 1 /\ UniqueHrefs(searchData)) =>
        \A q \in Queries :
            Len(q) = 1 =>
                /\ ~searchThrows(q)
                /\ Range(search(q)) =
                       {SearchResultOf(n) : n \in
                           {m \in Range(searchData) : NodeMatches(m, q)}}

(***************************************************************************)
(* C8.  Once the engine is Ready, no step changes the index or the lookup  *)
(* table.                                                                  *)
(***************************************************************************)
C8_ImmutableOnceReady ==
    [][isInited => index' = index /\ searchLookup' = searchLookup]_vars

(***************************************************************************)
(* C9 (as stated).  No step takes the engine back to Uninitialized.        *)
(***************************************************************************)
C9_NeverBackToUninitialized ==
    [][Lifecycle' = "Uninitialized" => Lifecycle = "Uninitialized"]_vars

(***************************************************************************)
(* C9 (amended).  Ready is never left, and the engine goes back to         *)
(* Uninitialized only from Initializing, when its last pending fetch       *)
(* fails.                                                                  *)
(***************************************************************************)
C9_ReadyIsAbsorbing ==
    [][/\ isInited => isInited'
       /\ (Lifecycle' = "Uninitialized" /\ Lifecycle # "Uninitialized") =>
              Lifecycle = "Initializing" /\ awaiting = 1 /\ InitFails
      ]_vars

\* Per-tab worker: Ready, although a second fetch, still pending when Ready
\* was reached, failed afterwards.
C9_Witness ==
    /\ transport = "per-tab"
    /\ isInited
    /\ fetches = 2
    /\ rejections = 1
    /\ awaiting = 0
    /\ posted[1] = <<ReadyResponse>>

(***************************************************************************)
(* C10.  A call of init when the engine is Ready issues no fetch, suspends *)
(* nothing and leaves isInited, the index and the lookup table unchanged.  *)
(***************************************************************************)
C10_InitWhenReadyIsNoOp ==
    [][(isInited /\ CallInit) =>
          UNCHANGED <<isInited, index, searchLookup, searchData, fetches, awaiting>>
      ]_vars

\* init was called on a Ready engine and returned at once.
C10_Witness ==
    /\ isInited
    /\ fetches = 1
    /\ lastCall = [op |-> "init", settled |-> TRUE]

(***************************************************************************)
(* C11.  Per-tab worker: the consumer has been posted exactly one ready    *)
(* for every init request whose init call has completed (the requests      *)
(* handled, less those still suspended at their fetch and those that       *)
(* failed), none while the engine is not Ready, and nothing is posted to   *)
(* any other port.                                                         *)
(***************************************************************************)
C11_PerTabOneReadyPerCompletedInit ==
    transport = "per-tab" =>
        /\ ReadyCount(1) = InitsHandled(1) - awaiting - rejections
        /\ ~isInited => ReadyCount(1) = 0
        /\ \A p \in Ports \ {1} : posted[p] = <<>>

\* The second init arrived when the engine was Ready (the search before it
\* was answered from the loaded index) and was answered with a ready too.
C11_Witness ==
    /\ transport = "per-tab"
    /\ fetches = 1
    /\ handled = <<InitRequest(1), SearchRequest(1, QuerySteps), InitRequest(1)>>
    /\ Len(posted[1]) = 3
    /\ posted[1][1] = ReadyResponse
    /\ posted[1][2].type = "search-response"
    /\ posted[1][2].results # <<>>
    /\ posted[1][3] = ReadyResponse

(***************************************************************************)
(* C12.  Shared worker: a step that handles an init while the engine is    *)
(* Ready posts one ready to the port of the request and nothing to any     *)
(* other port, and leaves the queue of waiting ports, the number of        *)
(* fetches issued or pending and the engine unchanged.                     *)
(***************************************************************************)
C12_SharedInitWhenReadyAnswersAtOnce ==
    [][(transport = "shared" /\ Handling("init") /\ isInited) =>
          /\ posted' = postMessage(posted, Head(inbox).port, ReadyResponse)
          /\ UNCHANGED <<portsWaitingOnInit, fetches, awaiting, isInitInProgess>>
          /\ UNCHANGED engine
      ]_vars

\* Port 2 sent its init after the engine was Ready (port 1 had already been
\* answered a search from the loaded index): it has its ready, no port is
\* queued, and port 1 was posted nothing more.
C12_Witness ==
    /\ transport = "shared"
    /\ isInited
    /\ fetches = 1
    /\ handled = <<InitRequest(1), SearchRequest(1, QuerySteps), InitRequest(2)>>
    /\ Len(posted[1]) = 2
    /\ posted[1][1] = ReadyResponse
    /\ posted[1][2].results # <<>>
    /\ posted[2] = <<ReadyResponse>>
    /\ portsWaitingOnInit = <<>>

(***************************************************************************)
(* C13.  Shared worker: a step that handles a search-request leaves the    *)
(* queue of waiting ports, the engine and the progress of any init         *)
(* unchanged, does not throw, and posts exactly one search-response, with  *)
(* the results of the query, to the port of the request.                   *)
(***************************************************************************)
C13_SharedSearchIndependentOfInit ==
    [][(transport = "shared" /\ Handling("search-request")) =>
          /\ UNCHANGED <<portsWaitingOnInit, isInitInProgess, awaiting, fetches>>
          /\ UNCHANGED engine
          /\ ~searchThrows(Head(inbox).query)
          /\ rejections' = rejections
          /\ posted' = postMessage(posted, Head(inbox).port,
                                   SearchResponse(search(Head(inbox).query)))
      ]_vars

\* Port 2 was answered its search while port 1 was queued behind the fetch.
C13_Witness ==
    /\ transport = "shared"
    /\ ~isInited
    /\ awaiting = 1
    /\ portsWaitingOnInit = <<1>>
    /\ handled = <<InitRequest(1), SearchRequest(2, QuerySteps)>>
    /\ posted[1] = <<>>
    /\ posted[2] = <<SearchResponse(<<>>)>>

(***************************************************************************)
(* C14.  On every channel the i-th response posted answers the i-th        *)
(* request handled from that channel: a ready for an init, a               *)
(* search-response for a search-request.                                   *)
(***************************************************************************)
HandledFrom(p) == SelectSeq(handled, LAMBDA m : m.port = p)

Answers(rsp, req) ==
    \/ req.type = "init" /\ rsp.type = "ready"
    \/ req.type = "search-request" /\ rsp.type = "search-response"

C14_ResponsesInRequestOrder ==
    \A p \in Ports :
        /\ Len(posted[p]) <= Len(HandledFrom(p))
        /\ \A i \in DOMAIN posted[p] : Answers(posted[p][i], HandledFrom(p)[i])

(***************************************************************************)
(* C15.  Store: search(q) sets query to q, leaves results and isOpen as    *)
(* they are and, when there is a worker, appends one search-request        *)
(* carrying q to the requests sent; a request is sent by no other step,    *)
(* and results changes only in a step that receives a search-response,     *)
(* to the payload of that response.                                        *)
(***************************************************************************)
RequestSent == Len(sent') > Len(sent)

C15_StoreSearchSetsQueryAndSendsOnce ==
    [][/\ \A q \in RequestQueries :
              StoreSearch(q) =>
                  /\ state'.query = q
                  /\ state'.results = state.results
                  /\ state'.isOpen = state.isOpen
                  /\ worker => sent' = Append(sent, SearchRequest(1, q))
       /\ RequestSent => sent' = Append(sent, SearchRequest(1, state'.query))
       /\ state'.results # state.results =>
              /\ delivered' = delivered + 1
              /\ posted[1][delivered'].type = "search-response"
              /\ state'.results = posted[1][delivered'].results
      ]_vars

\* The results of the first search are shown, a second search has been
\* issued, and its request is still in the inbox of the worker.
C15_Witness ==
    /\ worker
    /\ handled = <<InitRequest(1), SearchRequest(1, QuerySteps)>>
    /\ inbox = <<SearchRequest(1, QueryUndef)>>
    /\ state.query = QueryUndef
    /\ state.results # <<>>
    /\ state.results = search(QuerySteps)

(***************************************************************************)
(* C16.  Store: results is the payload of the search-response received     *)
(* last, or empty when none has been received; the step that receives a    *)
(* response leaves query and isOpen unchanged.                             *)
(***************************************************************************)
SearchResponsesReceived ==
    {i \in 1..delivered : posted[1][i].type = "search-response"}

LastResults ==
    IF SearchResponsesReceived = {} THEN <<>>
    ELSE LET last == CHOOSE i \in SearchResponsesReceived :
                         \A j \in SearchResponsesReceived : j <= i
         IN  posted[1][last].results

C16_ResultsAreLastResponse ==
    /\ [](state.results = LastResults)
    /\ [][delivered' # delivered =>
              /\ delivered' = delivered + 1
              /\ state'.query = state.query
              /\ state'.isOpen = state.isOpen
         ]_vars

\* Two responses were received, an empty one (the search overtook the init)
\* and then a non-empty one, which is shown although the query has been
\* cleared since.
C16_Witness ==
    /\ delivered = 3
    /\ posted[1][1] = SearchResponse(<<>>)
    /\ posted[1][2] = ReadyResponse
    /\ posted[1][3].type = "search-response"
    /\ state.results = posted[1][3].results
    /\ state.results # <<>>
    /\ state.query = <<>>

(***************************************************************************)
(* C17.  Store: open, close and toggleOpen send nothing and leave results  *)
(* unchanged; open sets isOpen and keeps query, close resets isOpen and    *)
(* empties query, toggleOpen negates isOpen and keeps query.  No step      *)
(* that changes isOpen sends a request or changes results.                 *)
(***************************************************************************)
LocalOnly ==
    /\ state'.results = state.results
    /\ UNCHANGED <<inbox, handled, posted, delivered, worker>>
    /\ UNCHANGED engine

C17_OpenCloseToggleAreLocal ==
    [][/\ open => LocalOnly /\ state'.isOpen /\ state'.query = state.query
       /\ close => LocalOnly /\ ~state'.isOpen /\ state'.query = <<>>
       /\ toggleOpen =>
              LocalOnly /\ state'.isOpen = ~state.isOpen /\ state'.query = state.query
       /\ state'.isOpen # state.isOpen => LocalOnly
      ]_vars

\* A search was made and answered, close emptied the query and kept the
\* results, and the dialog was opened again after it.
C17_Witness ==
    /\ worker
    /\ Len(sent) = 2
    /\ sent[2].type = "search-request"
    /\ state.query = <<>>
    /\ state.results # <<>>
    /\ state.isOpen

(***************************************************************************)
(* C18.  Store without a worker: no request is ever sent, no fetch is      *)
(* made, nothing is received and results stays empty; search, open, close  *)
(* and toggleOpen are enabled in every state and update query and isOpen   *)
(* as they do with a worker.                                               *)
(***************************************************************************)
C18_NoWorkerIsLocalState ==
    /\ [](~worker =>
              /\ sent = <<>>
              /\ fetches = 0
              /\ delivered = 0
              /\ posted[1] = <<>>
              /\ rejections = 0
              /\ state.results = <<>>
              /\ \A q \in RequestQueries : ENABLED StoreSearch(q)
              /\ ENABLED open /\ ENABLED close /\ ENABLED toggleOpen)
    /\ [][~worker =>
              /\ \A q \in RequestQueries :
                     StoreSearch(q) => state' = [state EXCEPT !.query = q]
              /\ open => state' = [state EXCEPT !.isOpen = TRUE]
              /\ close => state' = [state EXCEPT !.query = <<>>, !.isOpen = FALSE]
              /\ toggleOpen => state' = [state EXCEPT !.isOpen = ~state.isOpen]
         ]_vars

\* Without a worker: a query was typed while the dialog was open.
C18_Witness ==
    /\ ~worker
    /\ state.query = QueryUndef
    /\ state.isOpen
    /\ state.results = <<>>

(***************************************************************************)
(* C19.  Store with a worker: the first request sent is an init carrying   *)
(* the origin of the page, and every request after it is a                 *)
(* search-request.                                                         *)
(***************************************************************************)
C19_InitSentOnceAndFirst ==
    worker =>
        /\ sent # <<>>
        /\ sent[1] = InitRequest(1)
        /\ \A i \in 2..Len(sent) : sent[i].type = "search-request"

\* Several searches were sent after the init, one of them handled already.
C19_Witness ==
    /\ worker
    /\ Len(sent) >= 3
    /\ Len(handled) >= 2
    /\ inbox # <<>>
    /\ isInited

(***************************************************************************)
(* C20.  While the fetch of the corpus stays pending, no port is posted a  *)
(* ready, every request posted to the worker is eventually handled, and    *)
(* every search-request handled has been answered with one                 *)
(* search-response on its port.                                            *)
(***************************************************************************)
SearchesHandled(p) ==
    Cardinality({i \in DOMAIN handled :
                    handled[i].type = "search-request" /\ handled[i].port = p})

SearchResponseCount(p) ==
    Cardinality({i \in DOMAIN posted[p] : posted[p][i].type = "search-response"})

C20_StalledFetchStallsInitOnly ==
    /\ []((awaiting > 0 /\ ~isInited) => \A p \in Ports : ReadyCount(p) = 0)
    /\ [](\A p \in Ports : SearchResponseCount(p) = SearchesHandled(p))
    /\ \A k \in 1..MaxRequests :
           (Len(handled) + Len(inbox) >= k) ~> (Len(handled) >= k)

\* Shared worker: both ports wait for the pending fetch, and the search
\* that port 2 sent after its init has been answered.
C20_Witness ==
    /\ transport = "shared"
    /\ awaiting = 1
    /\ ~isInited
    /\ portsWaitingOnInit = <<1, 2>>
    /\ handled = <<InitRequest(1), InitRequest(2), SearchRequest(2, QuerySteps)>>
    /\ posted[1] = <<>>
    /\ posted[2] = <<SearchResponse(<<>>)>>
    /\ inbox = <<>>

(***************************************************************************)
(* C21.  Store: a search-request handled before the engine is Ready is     *)
(* answered once, with no results, and never again; receiving ready        *)
(* changes nothing in the store and sends nothing, so results is non-empty *)
(* only after a response to a request handled when the engine was Ready;   *)
(* the state of the store has no field but query, results and isOpen.      *)
(***************************************************************************)
ReadyBefore(i) == \E j \in 1..(i - 1) : posted[1][j].type = "ready"

C21_SearchBeforeReadyStaysEmpty ==
    /\ [](DOMAIN state = {"query", "results", "isOpen"})
    /\ [](\A i \in DOMAIN posted[1] :
              (posted[1][i].type = "search-response" /\ ~ReadyBefore(i)) =>
                  posted[1][i].results = <<>>)
    /\ [](SearchResponseCount(1) = SearchesHandled(1))
    /\ [](state.results # <<>> =>
              \E i \in 1..delivered :
                  posted[1][i].type = "search-response" /\ ReadyBefore(i))
    /\ [][(delivered' = delivered + 1 /\ posted[1][delivered'].type = "ready") =>
              state' = state /\ sent' = sent
         ]_vars

\* The search overtook the init and was answered with no results; the ready
\* has been received since, nothing else is in flight, and results is still
\* empty although the engine would now find the query.
C21_Witness ==
    /\ worker
    /\ isInited
    /\ sent = <<InitRequest(1), SearchRequest(1, QuerySteps)>>
    /\ inbox = <<>>
    /\ posted[1] = <<SearchResponse(<<>>), ReadyResponse>>
    /\ delivered = 2
    /\ state.query = QuerySteps
    /\ state.results = <<>>
    /\ search(QuerySteps) # <<>>

(***************************************************************************)
(* The reference slug: the string in lower case, every maximal run of      *)
(* characters outside a set of kept characters replaced by one hyphen,     *)
(* and the hyphens at both ends removed.                                   *)
(***************************************************************************)
RECURSIVE SkipRun(_, _)
SkipRun(str, Kept) ==
    IF str = <<>> \/ str[1] \in Kept THEN str ELSE SkipRun(Tail(str), Kept)

RECURSIVE ReplaceRuns(_, _)
ReplaceRuns(str, Kept) ==
    IF str = <<>> THEN <<>>
    ELSE IF str[1] \in Kept THEN <<str[1]>> \o ReplaceRuns(Tail(str), Kept)
    ELSE <<"-">> \o ReplaceRuns(SkipRun(str, Kept), Kept)

RECURSIVE TrimHyphens(_)
TrimHyphens(str) ==
    IF str = <<>> THEN str
    ELSE IF str[1] = "-" THEN TrimHyphens(Tail(str))
    ELSE IF str[Len(str)] = "-" THEN TrimHyphens(SubSeq(str, 1, Len(str) - 1))
    ELSE str

ReferenceSlug(str, Kept) == TrimHyphens(ReplaceRuns(toLowerCase(str), Kept))

(***************************************************************************)
(* C24 (as stated).  slugify(s) is the reference slug of s where the       *)
(* characters of [a-z0-9-$], literal hyphens included, are kept.           *)
(***************************************************************************)
C24_SlugifyKeepsLiteralHyphens ==
    slugOutput # <<>> => slugOutput[1] = ReferenceSlug(slugInput, SlugChars)

(***************************************************************************)
(* C24 (amended).  slugify(s) is the reference slug of s where the letters, *)
(* the digits and $ are kept: a literal hyphen belongs to the run it       *)
(* stands in, so no slug has two hyphens in a row.                         *)
(***************************************************************************)
C24_SlugifyCollapsesHyphens ==
    slugOutput # <<>> =>
        /\ slugOutput[1] = ReferenceSlug(slugInput, SlugChars \ {"-"})
        /\ \A i \in 1..(Len(slugOutput[1]) - 1) :
               ~(slugOutput[1][i] = "-" /\ slugOutput[1][i + 1] = "-")

\* "B -a" gives "b-a": the blank and the literal hyphen make one hyphen.
C24_Witness ==
    /\ slugInput = <<"B", " ", "-", "a">>
    /\ slugOutput = << <<"b", "-", "a">> >>

(***************************************************************************)
(* C22.  When content has been through every file, no two nodes of the     *)
(* corpus have the same href.                                              *)
(***************************************************************************)
ContentDone == transport = "build" /\ files # <<>> /\ fileIx = Len(files)

C22_ExtractedHrefsUnique == ContentDone => UniqueHrefs(corpus)

(***************************************************************************)
(* C25.  In the corpus every root node (a trail of one title) has an href  *)
(* /docs/<slug>, and every node after it, up to the next root, has the     *)
(* href of that root followed by /# and the slug of its own heading.       *)
(***************************************************************************)
RootIx(i) ==
    CHOOSE j \in 1..i :
        /\ Len(corpus[j].breadcrumbs) = 1
        /\ \A k \in (j + 1)..i : Len(corpus[k].breadcrumbs) > 1

C25_SectionsShareTheRootSlug ==
    ContentDone =>
        \A i \in DOMAIN corpus :
            LET node == corpus[i]
            IN  IF Len(node.breadcrumbs) = 1
                THEN IsPrefix(DocsPath, node.href)
                ELSE node.href = corpus[RootIx(i)].href \o <<"/", "#">> \o
                                     slugify(node.breadcrumbs[Len(node.breadcrumbs)])

(***************************************************************************)
(* C26.  The corpus has, for every markdown file in turn, one node for     *)
(* the root and one node for every heading line of level 2, 3 or 4, in     *)
(* the order of the lines; the trail of a node ends with its own heading,  *)
(* has the length of its level (1 for the root), and extends the trail of  *)
(* the nearest node before it that is one level up.                        *)
(***************************************************************************)
HeadingLines(body) == SelectSeq(body, LAMBDA e : e.level # 0)

ExpectedNodes(file) ==
    <<[text |-> file.title, level |-> 1]>> \o HeadingLines(file.body)

ExpectedCorpus ==
    LET mds == SelectSeq(files, LAMBDA f : f.md)
    IN  Flatten([k \in DOMAIN mds |-> ExpectedNodes(mds[k])])

ExtendsParent(i) ==
    LET trail == corpus[i].breadcrumbs
    IN  Len(trail) > 1 =>
            \E j \in 1..(i - 1) :
                /\ corpus[j].breadcrumbs = SubSeq(trail, 1, Len(trail) - 1)
                /\ \A k \in (j + 1)..(i - 1) :
                       Len(corpus[k].breadcrumbs) >= Len(trail)

C26_OneNodePerHeading ==
    ContentDone =>
        /\ Len(corpus) = Len(ExpectedCorpus)
        /\ \A i \in DOMAIN corpus :
               LET trail == corpus[i].breadcrumbs
               IN  /\ trail # <<>>
                   /\ i <= Len(ExpectedCorpus) =>
                          /\ Len(trail) = ExpectedCorpus[i].level
                          /\ trail[Len(trail)] = ExpectedCorpus[i].text
                   /\ ExtendsParent(i)

(***************************************************************************)
(* C23.  Every entry of the lookup table is stored under its own href,     *)
(* has the last element of its breadcrumbs as title, and has the           *)
(* breadcrumbs and content of a corpus node of that href: after a single   *)
(* init, of the last node of the corpus with that href.  Every result a    *)
(* search returned has the same shape.                                     *)
(***************************************************************************)
BuiltFrom(result, node) ==
    /\ result.href = node.href
    /\ result.breadcrumbs = node.breadcrumbs
    /\ result.content = node.content
    /\ result.title = result.breadcrumbs[Len(result.breadcrumbs)]

LastNodeAt(h) ==
    searchData[CHOOSE i \in DOMAIN searchData :
                   /\ searchData[i].href = h
                   /\ \A j \in DOMAIN searchData : searchData[j].href = h => j <= i]

C23_ResultsMirrorTheirNode ==
    /\ \A h \in DOMAIN searchLookup :
           /\ searchLookup[h].href = h
           /\ \E node \in SearchNode : BuiltFrom(searchLookup[h], node)
           /\ fetches = 1 => BuiltFrom(searchLookup[h], LastNodeAt(h))
    /\ (lastCall.op = "search" /\ ~lastCall.threw) =>
           \A i \in DOMAIN lastCall.results :
               \E node \in SearchNode : BuiltFrom(lastCall.results[i], node)

\* A search returned a section: its title is the heading of the section, the
\* last of its two breadcrumbs.
C23_Witness ==
    /\ isInited
    /\ lastCall.op = "search"
    /\ ~lastCall.threw
    /\ lastCall.query = QueryUpper
    /\ Len(lastCall.results) = 1
    /\ lastCall.results[1].breadcrumbs = <<TitleGetStarted, TitleOverview>>
    /\ lastCall.results[1].title = TitleOverview

(***************************************************************************)
(* C27.  In every state, which is every state in which a handler can       *)
(* start, the index and the lookup table are empty and the engine is not   *)
(* Ready, or the engine is Ready and they hold the same hrefs, among them  *)
(* every href of the corpus parsed last, each with the entry of the last   *)
(* node that has it.                                                       *)
(***************************************************************************)
C27_IndexEmptyOrComplete ==
    IF isInited
    THEN /\ IndexIds(index) = DOMAIN searchLookup
         /\ \A i \in DOMAIN searchData :
                /\ searchData[i].href \in IndexIds(index)
                /\ BuiltFrom(searchLookup[searchData[i].href],
                             LastNodeAt(searchData[i].href))
    ELSE index = <<>> /\ searchLookup = <<>>

\* Per-tab worker: the first search raced the init and was answered from
\* the empty index, the second one from the complete corpus of two nodes.
C27_Witness ==
    /\ transport = "per-tab"
    /\ isInited
    /\ fetches = 1
    /\ searchData = SectionBlocks
    /\ Len(index) = 2
    /\ handled = <<InitRequest(1), SearchRequest(1, QuerySteps),
                   SearchRequest(1, QuerySteps)>>
    /\ Len(posted[1]) = 3
    /\ posted[1][1] = SearchResponse(<<>>)
    /\ posted[1][2] = ReadyResponse
    /\ posted[1][3].results # <<>>

(***************************************************************************)
(* C28.  Shared worker: every port has been posted one search-response per *)
(* search-request handled from it and nothing but search-responses and     *)
(* readies; it is queued once per init handled from it while the engine is *)
(* not Ready, has no ready before that, and once the engine is Ready has   *)
(* exactly one ready per init, so never more readies than inits sent.      *)
(***************************************************************************)
QueueCount(p) ==
    Cardinality({i \in DOMAIN portsWaitingOnInit : portsWaitingOnInit[i] = p})

C28_NoCrossPortLeak ==
    transport = "shared" =>
        \A p \in Ports :
            /\ SearchResponseCount(p) = SearchesHandled(p)
            /\ Len(posted[p]) = SearchResponseCount(p) + ReadyCount(p)
            /\ ReadyCount(p) <= InitsHandled(p)
            /\ QueueCount(p) = IF isInited THEN 0 ELSE InitsHandled(p)
            /\ ReadyCount(p) = IF isInited THEN InitsHandled(p) ELSE 0

\* Port 1 sent init twice before the engine was Ready and has two readies;
\* port 2 sent a search only (answered before Ready) and has no ready.
C28_Witness ==
    /\ transport = "shared"
    /\ isInited
    /\ fetches = 1
    /\ handled = <<InitRequest(1), InitRequest(1), SearchRequest(2, QuerySteps)>>
    /\ posted[1] = <<ReadyResponse, ReadyResponse>>
    /\ posted[2] = <<SearchResponse(<<>>)>>

(***************************************************************************)
(* C29.  Shared worker: the init-waiting queue only grows at its end,      *)
(* except in the step that makes the engine Ready, which posts one ready   *)
(* per queued entry and empties the queue.  A step that records a failure  *)
(* leaves the queue as it is, so the ports of a failed init are notified   *)
(* by the next init that succeeds; and whenever the engine is Ready and no *)
(* init handler is suspended the queue is empty.                           *)
(***************************************************************************)
QueueClearedByReady ==
    /\ portsWaitingOnInit' = <<>>
    /\ isInited'
    /\ posted' = PostReadyToAll(posted, portsWaitingOnInit)

QueueStep ==
    transport = "shared" =>
        /\ \/ IsPrefix(portsWaitingOnInit, portsWaitingOnInit')
           \/ QueueClearedByReady
        /\ rejections' # rejections => portsWaitingOnInit' = portsWaitingOnInit
        /\ (~isInited /\ isInited') => QueueClearedByReady

C29_QueueLeftOnlyByReady ==
    /\ [](transport = "shared" /\ isInited /\ awaiting = 0
              => portsWaitingOnInit = <<>>)
    /\ [][QueueStep]_vars

\* The init of port 1 failed and port 1 stayed queued; the init of port 2
\* started a second fetch, whose success posted ready to both ports.
C29_Witness ==
    /\ transport = "shared"
    /\ isInited
    /\ awaiting = 0
    /\ rejections = 1
    /\ fetches = 2
    /\ handled = <<InitRequest(1), InitRequest(2)>>
    /\ portsWaitingOnInit = <<>>
    /\ posted[1] = <<ReadyResponse>>
    /\ posted[2] = <<ReadyResponse>>

(***************************************************************************)
(* C30.  Store: once the worker has taken every request and the store has  *)
(* received every search-response, results is the answer to the last       *)
(* search-request sent: the engine's search of its query when the request  *)
(* was handled after the ready, and nothing otherwise.  This stays so      *)
(* until search is called again, and for every number of requests either   *)
(* another request is sent or that state is reached.                       *)
(***************************************************************************)
SearchesSent == SelectSeq(sent, LAMBDA m : m.type = "search-request")

SearchResponsesPosted ==
    {i \in DOMAIN posted[1] : posted[1][i].type = "search-response"}

Answered ==
    /\ inbox = <<>>
    /\ SearchResponsesPosted = SearchResponsesReceived

AnswerToLastRequest ==
    LET last == CHOOSE i \in SearchResponsesPosted :
                    \A j \in SearchResponsesPosted : j <= i
    IN  IF ReadyBefore(last)
        THEN search(SearchesSent[Len(SearchesSent)].query)
        ELSE <<>>

Settled ==
    IF SearchesSent = <<>>
    THEN state.results = <<>>
    ELSE /\ Cardinality(SearchResponsesPosted) = Len(SearchesSent)
         /\ state.results = AnswerToLastRequest

C30_StoreSettlesOnLastAnswer ==
    /\ [](Answered => Settled)
    /\ [][(Answered /\ sent' = sent) =>
              (Answered' /\ state'.results = state.results)]_vars
    /\ \A n \in 0..MaxRequests :
           [](Len(sent) = n => <>(Len(sent) # n \/ (Answered /\ Settled)))

\* Two searches with different answers were sent after the engine was
\* Ready; both responses have been received and results is the answer to
\* the second.
C30_Witness ==
    /\ worker
    /\ sent = <<InitRequest(1), SearchRequest(1, QueryUndef),
                SearchRequest(1, QuerySteps)>>
    /\ Answered
    /\ delivered = 3
    /\ posted[1][1] = ReadyResponse
    /\ posted[1][2].results # posted[1][3].results
    /\ state.results = search(QuerySteps)
    /\ state.results # <<>>

====
